---- MODULE Spec2Model ----
(***************************************************************************)
(* Credit & vote transaction flows of the pyramid-game client code, as a   *)
(* state machine over the shared Firestore `users` and `bounties`          *)
(* collections.  A Firestore transaction (db.runTransaction) that commits  *)
(* is one atomic step; every plain get()/update() pair outside a           *)
(* transaction is two steps of the calling browser session, so other       *)
(* sessions may commit in between and the session may stop in between.     *)
(* A field that every reader defaults when it is missing is kept at that   *)
(* default (votesRemaining ?? 3, credits || 0, bountyTime || 0).           *)
(***************************************************************************)
EXTENDS Integers, FiniteSets, Sequences, Bags, TLC

\* ------------------------------------------------------------------------
\* Universe of the model
\* ------------------------------------------------------------------------
Names == {"a", "b", "c"}          \* document ids of the users collection
Sessions == {"s1", "s2"}          \* browser sessions (tabs) running the client code
NoOne == "-"                      \* absent field / no argument
SignedIn == {"a", "b"}            \* accounts that hold a stored session (getCurrentUser)

\* Bounds of the model (not program constants)
MaxTicks == 1                     \* the clock advances at most this many hours
MaxCalls == 4                     \* calls of the client code started in one behaviour
MaxBounties == 2                  \* documents the bounties collection may hold

\* ------------------------------------------------------------------------
\* Program constants
\* ------------------------------------------------------------------------
BOUNTY_CONFIG_cost == 50000
BOUNTY_CONFIG_duration == 3600000
BOUNTY_CONFIG_cooldown == 600000
BOUNTY_CONFIG_maxActiveBounties == 3
ECONOMY_CONFIG_minTransfer == 100
ECONOMY_CONFIG_maxTransfer == 1000000
ECONOMY_CONFIG_votingReward == 100
AUTH_CONFIG_defaultCredits == 100000
AUTH_CONFIG_defaultVotes == 3
VOTING_CONFIG_maxVotesPerUser == 3
VOTING_CONFIG_voteResetInterval == 7 * 24 * 60 * 60 * 1000
VOTES_PER_WEEK == 3
VOTING_CREDIT_REWARD == 25000
MAX_VOTES_PER_TARGET_PER_WEEK == 2
PAGE_bountyDuration == 60 * 60 * 1000

TickMs == BOUNTY_CONFIG_duration          \* one clock step of the model: one hour
StartTime == VOTING_CONFIG_voteResetInterval  \* Date.now() in the first state: far from 0

ECONOMY_CONFIG_dailyBonus == 1000
dayInMs == 24 * 60 * 60 * 1000

AUTH_CONFIG_referralBonusNew == 25000
AUTH_CONFIG_referralBonusReferrer == 50000

\* Gift prices the model draws from the catalog (Bike)
GiftPrices == {50000}
\* GIFT_CATALOG.Laptop.price
LaptopPrice == 30000
\* Amounts a caller passes to transferCredits
TransferAmounts == {100000}
\* Amounts the admin types into the credit panel / the Add Credits prompt
AdminAmounts == {100000}
EditDeltas == {-100000}
\* Roll numbers typed into the registration form
Rolls == {1, 3}

VARIABLES
  users,      \* users collection: Names -> account document
  bounties,   \* bounties collection written by the dashboard page
  pc,         \* Sessions -> position of the session's running call
  loc,        \* Sessions -> local variables of the running call
  result,     \* Sessions -> outcome of the session's last finished call
  cache,      \* Sessions -> React state of the dashboard (currentUser, users)
  bstate,     \* Sessions -> BountyState of bounty.js
  now,        \* wall clock, ms
  logs,       \* the log collections: votes (one count per voter and target),
              \* transactions, gifts and the GIFT messages (bags of documents),
              \* and the settings/economy document
  book,       \* bookkeeping of the credits and votes moved so far (not program state)
  calls       \* bookkeeping: calls started so far

vars == <<users, bounties, pc, loc, result, cache, bstate, now, logs, book, calls>>

\* ------------------------------------------------------------------------
\* Helpers
\* ------------------------------------------------------------------------
RECURSIVE SumOver(_, _)
SumOver(f, S) ==
  IF S = {} THEN 0
  ELSE LET x == CHOOSE y \in S : TRUE IN f[x] + SumOver(f, S \ {x})

Credits == [n \in Names |-> IF users[n].exists THEN users[n].credits ELSE 0]
TotalCredits == SumOver(Credits, Names)

\* Stake held against every marked target (bounty.js keeps it nowhere else)
Escrow == BOUNTY_CONFIG_cost * Cardinality({n \in Names : users[n].exists /\ users[n].isBounty})

NoTimer == 0                      \* no entry in BountyState.expirationTimers

\* settings/economy before the admin has ever written it: no locked field
NoSettings == [locked |-> FALSE]

NoLocals == [me |-> NoOne, target |-> NoOne, amount |-> 0, seen |-> {}, wrote |-> FALSE,
             read |-> [n \in Names |-> 0]]

\* Document written by handleRegister
NewAccount ==
  [exists |-> TRUE,
   credits |-> AUTH_CONFIG_defaultCredits,
   votesRemaining |-> AUTH_CONFIG_defaultVotes,
   totalVotesReceived |-> 0,
   totalVotesCast |-> 0,
   banned |-> FALSE,
   rollNumber |-> 0,
   votesGiven |-> [n \in Names |-> 0],
   voters |-> [n \in Names |-> 0],
   lastVoteReset |-> 0,
   isBounty |-> FALSE,
   bountyPlacer |-> NoOne,
   bountyTime |-> 0,
   lastDailyBonus |-> 0]          \* 0: no lastDailyBonus field

\* A document id nobody registered, or one the admin deleted
Absent == [NewAccount EXCEPT !.exists = FALSE, !.credits = 0]

\* A session starts a call of the client code
Start(s) == /\ pc[s] = "idle"
            /\ calls < MaxCalls
            /\ calls' = calls + 1

\* The call of session s ends with outcome r; w: it has written an account document
Finish(s, r, w) == /\ pc' = [pc EXCEPT ![s] = "idle"]
                   /\ loc' = [loc EXCEPT ![s] = [NoLocals EXCEPT !.wrote = w]]
                   /\ result' = [result EXCEPT ![s] = r]

\* The call of session s goes on at label with locals l
Goto(s, label, l) == /\ pc' = [pc EXCEPT ![s] = label]
                     /\ loc' = [loc EXCEPT ![s] = l]
                     /\ result' = [result EXCEPT ![s] = "none"]

\* roll numbers the registered accounts gave
RollOf == [n \in Names |-> IF n = "a" THEN 1 ELSE IF n = "b" THEN 2 ELSE 3]

InitWith(registered) ==
  /\ users = [n \in Names |-> IF n \in registered
                                THEN [NewAccount EXCEPT !.rollNumber = RollOf[n]]
                                ELSE Absent]
  /\ bounties = <<>>
  /\ pc = [s \in Sessions |-> "idle"]
  /\ loc = [s \in Sessions |-> NoLocals]
  /\ result = [s \in Sessions |-> "none"]
  /\ cache = [s \in Sessions |-> [me |-> NoOne, credits |-> [n \in Names |-> 0], listed |-> {},
                                   activeBounties |-> {}]]
  /\ bstate = [s \in Sessions |-> [lastBountyTime |-> 0, activeBounties |-> {},
                                    expirationTimers |-> [n \in Names |-> NoTimer]]]
  /\ now = StartTime
  /\ logs = [votes |-> [v \in Names |-> [t \in Names |-> 0]],
             transactions |-> EmptyBag, gifts |-> EmptyBag, messages |-> EmptyBag,
             economy |-> NoSettings]
  /\ book = [fees |-> 0, forfeited |-> 0, giftNet |-> [n \in Names |-> 0],
             cast |-> [v \in Names |-> [t \in Names |-> 0]]]
  /\ calls = 0

\* everybody registered / only a and b registered
Init == InitWith(Names)
InitTwo == InitWith({"a", "b"})

\* The wall clock advances
Tick ==
  /\ now < StartTime + MaxTicks * TickMs
  /\ now' = now + TickMs
  /\ UNCHANGED <<users, bounties, pc, loc, result, cache, bstate, logs, book, calls>>

\* ------------------------------------------------------------------------
\* economy: transferCredits
\* ------------------------------------------------------------------------
TransferFee(amount) == (amount * 5) \div 100

NetAmountNoFee(amount) == amount
NetAmount(amount) == amount - TransferFee(amount)

\* db.collection('transactions').add(...) of logTransaction
logTransaction(sender, recipient, amount) ==
  [logs EXCEPT !.transactions = @ (+) SetToBag({[sender |-> sender, recipient |-> recipient,
                                                 amount |-> amount, fee |-> TransferFee(amount),
                                                 type |-> "transfer"]})]

\* transferCredits up to the end of its transaction
transferCredits(s, me, recipient, amount) ==
  /\ Start(s)
  /\ UNCHANGED <<bounties, cache, bstate, now, logs>>
  /\ IF me = recipient THEN
       Finish(s, "SelfTransfer", FALSE) /\ UNCHANGED <<users, book>>
     ELSE IF amount < ECONOMY_CONFIG_minTransfer \/ amount > ECONOMY_CONFIG_maxTransfer THEN
       Finish(s, "InvalidAmount", FALSE) /\ UNCHANGED <<users, book>>
     ELSE IF ~users[me].exists \/ ~users[recipient].exists THEN
       Finish(s, "NotFound", FALSE) /\ UNCHANGED <<users, book>>
     ELSE IF users[me].credits < amount THEN
       Finish(s, "InsufficientFunds", FALSE) /\ UNCHANGED <<users, book>>
     ELSE
       /\ users' = [users EXCEPT ![me].credits = @ - amount,
                                 ![recipient].credits = @ + NetAmount(amount)]
       /\ book' = [book EXCEPT !.fees = @ + TransferFee(amount)]
       /\ Goto(s, "transfer_log", [NoLocals EXCEPT !.me = me, !.target = recipient,
                                                    !.amount = amount, !.wrote = TRUE])

\* transferCredits: await logTransaction(currentUser, recipient, amount)
transferCredits_logTransaction(s) ==
  /\ pc[s] = "transfer_log"
  /\ logs' = logTransaction(loc[s].me, loc[s].target, loc[s].amount)
  /\ Finish(s, "ok", TRUE)
  /\ UNCHANGED <<users, bounties, cache, bstate, now, book, calls>>

\* ------------------------------------------------------------------------
\* chat: executeGiftTransaction (called by confirmAndSendGift from the gift modal)
\* ------------------------------------------------------------------------
GiftBooked(sender, recipient, price) ==
  [book EXCEPT !.giftNet = [n \in Names |->
     book.giftNet[n] + (IF n = recipient THEN price ELSE 0) - (IF n = sender THEN price ELSE 0)]]

\* outcome of the transaction body
GiftOutcome(sender, recipient, price) ==
  IF ~users[sender].exists \/ ~users[recipient].exists THEN "NotFound"
  ELSE IF users[sender].credits < price THEN "InsufficientFunds"
  ELSE "ok"

executeGiftTransaction(s, sender, recipient, price) ==
  /\ Start(s)
  /\ UNCHANGED <<bounties, cache, bstate, now, logs>>
  /\ IF GiftOutcome(sender, recipient, price) # "ok" THEN
       Finish(s, GiftOutcome(sender, recipient, price), FALSE) /\ UNCHANGED <<users, book>>
     ELSE
       \* both updates are computed from the snapshot read by the transaction
       /\ users' = [n \in Names |->
                      IF n = recipient THEN [users[n] EXCEPT !.credits = users[recipient].credits + price]
                      ELSE IF n = sender THEN [users[n] EXCEPT !.credits = users[sender].credits - price]
                      ELSE users[n]]
       /\ book' = GiftBooked(sender, recipient, price)
       /\ Goto(s, "gift_message", [NoLocals EXCEPT !.me = sender, !.target = recipient,
                                                    !.amount = price, !.wrote = TRUE])

\* executeGiftTransaction: db.collection('messages').add({type: 'GIFT', ...})
executeGiftTransaction_message(s) ==
  /\ pc[s] = "gift_message"
  /\ logs' = [logs EXCEPT !.messages = @ (+) SetToBag({[user |-> loc[s].me,
                                                        target |-> loc[s].target,
                                                        type |-> "GIFT"]})]
  /\ Finish(s, "ok", TRUE)
  /\ UNCHANGED <<users, bounties, cache, bstate, now, book, calls>>

\* openGiftModal: the modal is only created for another user
openGiftModal(s, me, targetUser, price) ==
  /\ me # targetUser
  /\ executeGiftTransaction(s, me, targetUser, price)

\* legacy chat: executeGift, reached from openGiftMenu for another user.  The
\* transaction body updates the sender and then reads the target; Firestore
\* rejects a read after a write, so no run of the body commits.
executeGift(s, sender, target, price) ==
  /\ Start(s)
  /\ sender # target
  /\ Finish(s, IF ~users[sender].exists THEN "TypeError"
               ELSE IF users[sender].credits < price THEN "InsufficientFunds"
               ELSE "ReadAfterWrite", FALSE)
  /\ UNCHANGED <<users, bounties, cache, bstate, now, logs, book>>

\* ------------------------------------------------------------------------
\* dashboard page (page.tsx)
\* ------------------------------------------------------------------------
\* useEffect on mount: currentUser from the stored session and loadUsers();
\* neither is refreshed afterwards
Dashboard_mount(s, me) ==
  /\ Start(s)
  /\ users[me].exists
  /\ cache' = [cache EXCEPT ![s] = [me |-> me, credits |-> Credits,
                                    listed |-> {n \in Names : users[n].exists},
                                    activeBounties |-> {}]]
  /\ Finish(s, "mounted", FALSE)
  /\ UNCHANGED <<users, bounties, bstate, now, logs, book>>

\* the onSnapshot listener on bounties where active == true, registered by the
\* mount: setActiveBounties(snapshot.docs); it writes nothing back
onBountiesSnapshot(s) ==
  /\ cache[s].me # NoOne
  /\ cache[s].activeBounties # {i \in 1..Len(bounties) : bounties[i].active}
  /\ cache' = [cache EXCEPT ![s].activeBounties =
                 {i \in 1..Len(bounties) : bounties[i].active}]
  /\ UNCHANGED <<users, bounties, pc, loc, result, bstate, now, logs, book, calls>>

\* sendGift up to addDoc(gifts): giftRecipient is an entry of the loaded list
sendGift(s, giftRecipient, giftAmount) ==
  /\ Start(s)
  /\ cache[s].me # NoOne
  /\ giftRecipient \in cache[s].listed \ {cache[s].me}
  /\ IF cache[s].credits[cache[s].me] < giftAmount
     THEN Finish(s, "InsufficientFunds", FALSE) /\ UNCHANGED logs
     ELSE /\ logs' = [logs EXCEPT !.gifts = @ (+) SetToBag({[senderId |-> cache[s].me,
                                                            recipientId |-> giftRecipient,
                                                            amount |-> giftAmount]})]
          /\ Goto(s, "gift_debit", [NoLocals EXCEPT !.me = cache[s].me,
                                                      !.target = giftRecipient,
                                                      !.amount = giftAmount])
  /\ UNCHANGED <<users, bounties, cache, bstate, now, book>>

\* updateDoc(senderRef, {credits: currentUser.credits - giftAmount})
sendGift_debit(s) ==
  /\ pc[s] = "gift_debit"
  /\ IF ~users[loc[s].me].exists THEN
       Finish(s, "NotFound", loc[s].wrote) /\ UNCHANGED users
     ELSE
       /\ users' = [users EXCEPT ![loc[s].me].credits = cache[s].credits[loc[s].me] - loc[s].amount]
       /\ Goto(s, "gift_credit", [loc[s] EXCEPT !.wrote = TRUE])
  /\ UNCHANGED <<bounties, cache, bstate, now, logs, book, calls>>

\* updateDoc(recipientRef, {credits: (giftRecipient.credits || 0) + giftAmount})
sendGift_credit(s) ==
  /\ pc[s] = "gift_credit"
  /\ IF ~users[loc[s].target].exists THEN
       Finish(s, "NotFound", loc[s].wrote) /\ UNCHANGED <<users, book>>
     ELSE
       /\ users' = [users EXCEPT ![loc[s].target].credits = cache[s].credits[loc[s].target] + loc[s].amount]
       /\ book' = GiftBooked(loc[s].me, loc[s].target, loc[s].amount)
       /\ Finish(s, "ok", TRUE)
  /\ UNCHANGED <<bounties, cache, bstate, now, logs, calls>>

\* placeBounty of the page up to addDoc(bounties)
placeBounty_page(s, bountyTarget, bountyAmount) ==
  /\ Start(s)
  /\ cache[s].me # NoOne
  /\ bountyTarget \in cache[s].listed \ {cache[s].me}
  /\ Len(bounties) < MaxBounties
  /\ IF cache[s].credits[cache[s].me] < bountyAmount THEN
       Finish(s, "InsufficientFunds", FALSE) /\ UNCHANGED bounties
     ELSE
       /\ bounties' = Append(bounties,
            [targetId |-> bountyTarget, amount |-> bountyAmount, remaining |-> bountyAmount,
             placedBy |-> cache[s].me, createdAt |-> now,
             expiresAt |-> now + PAGE_bountyDuration, active |-> TRUE])
       /\ Goto(s, "pbounty_debit", [NoLocals EXCEPT !.me = cache[s].me,
                                                    !.target = bountyTarget,
                                                    !.amount = bountyAmount])
  /\ UNCHANGED <<users, cache, bstate, now, logs, book>>

\* updateDoc(userRef, {credits: currentUser.credits - bountyAmount})
placeBounty_page_debit(s) ==
  /\ pc[s] = "pbounty_debit"
  /\ IF ~users[loc[s].me].exists THEN
       Finish(s, "NotFound", loc[s].wrote) /\ UNCHANGED users
     ELSE
       /\ users' = [users EXCEPT ![loc[s].me].credits = cache[s].credits[loc[s].me] - loc[s].amount]
       /\ Finish(s, "ok", TRUE)
  /\ UNCHANGED <<bounties, cache, bstate, now, logs, book, calls>>

\* ------------------------------------------------------------------------
\* admin panel
\* ------------------------------------------------------------------------
\* js_admin.js deleteUser
deleteUser(s, name) ==
  /\ Start(s)
  /\ users[name].exists
  /\ users' = [users EXCEPT ![name] = Absent]
  /\ Finish(s, "deleted", TRUE)
  /\ UNCHANGED <<bounties, cache, bstate, now, logs, book>>

\* admin.js adminRemoveCredits: userRef.get() and the checks
adminRemoveCredits(s, username, amount) ==
  /\ Start(s)
  /\ IF ~users[username].exists THEN Finish(s, "NotFound", FALSE)
     ELSE IF users[username].credits < amount THEN Finish(s, "InsufficientFunds", FALSE)
     ELSE Goto(s, "remove_update", [NoLocals EXCEPT !.target = username, !.amount = amount])
  /\ UNCHANGED <<users, bounties, cache, bstate, now, logs, book>>

\* admin.js adminRemoveCredits: userRef.update({credits: increment(-amount)})
Removed(credits, amount) == credits - amount

adminRemoveCredits_update(s) ==
  /\ pc[s] = "remove_update"
  /\ IF ~users[loc[s].target].exists THEN
       Finish(s, "NotFound", FALSE) /\ UNCHANGED users
     ELSE
       /\ users' = [users EXCEPT ![loc[s].target].credits = Removed(@, loc[s].amount)]
       /\ Finish(s, "ok", TRUE)
  /\ UNCHANGED <<bounties, cache, bstate, now, logs, book, calls>>

\* js_admin.js openEditMenu, action 4 (Add Credits): the get() and the prompt
openEditMenu(s, name, delta) ==
  /\ Start(s)
  /\ IF ~users[name].exists THEN Finish(s, "NotFound", FALSE)
     ELSE Goto(s, "edit_set", [NoLocals EXCEPT !.target = name,
                                               !.amount = users[name].credits + delta])
  /\ UNCHANGED <<users, bounties, cache, bstate, now, logs, book>>

\* js_admin.js updateUser: set({credits: newCredits}, {merge: true})
openEditMenu_set(s) ==
  /\ pc[s] = "edit_set"
  /\ users' = [users EXCEPT ![loc[s].target].exists = TRUE,
                            ![loc[s].target].credits = loc[s].amount]
  /\ Finish(s, "ok", TRUE)
  /\ UNCHANGED <<bounties, cache, bstate, now, logs, book, calls>>

\* admin console (openAdminPower), case "8", ECONOMY LOCK: the set of
\* settings/economy with the answer of the confirm dialog
openAdminPower_lock(s, status) ==
  /\ Start(s)
  /\ logs' = [logs EXCEPT !.economy = [locked |-> status]]
  /\ Finish(s, IF status THEN "Frozen" ELSE "Restored", FALSE)
  /\ UNCHANGED <<users, bounties, cache, bstate, now, book>>

\* economy: claimDailyBonus, userRef.get() and the check of the last claim
claimDailyBonus(s, me) ==
  /\ Start(s)
  /\ IF ~users[me].exists THEN Finish(s, "false", FALSE)
     ELSE IF now - users[me].lastDailyBonus < dayInMs THEN Finish(s, "AlreadyClaimed", FALSE)
     ELSE Goto(s, "bonus_update", [NoLocals EXCEPT !.me = me])
  /\ UNCHANGED <<users, bounties, cache, bstate, now, logs, book>>

\* the account after the bonus update: increment and serverTimestamp
BonusDoc(doc) ==
  [doc EXCEPT !.credits = @ + ECONOMY_CONFIG_dailyBonus, !.lastDailyBonus = now]

\* claimDailyBonus: userRef.update(...)
claimDailyBonus_update(s) ==
  /\ pc[s] = "bonus_update"
  /\ IF ~users[loc[s].me].exists THEN
       Finish(s, "NotFound", FALSE) /\ UNCHANGED users
     ELSE
       /\ users' = [users EXCEPT ![loc[s].me] = BonusDoc(@)]
       /\ Finish(s, "claimed", TRUE)
  /\ UNCHANGED <<bounties, cache, bstate, now, logs, book, calls>>

\* admin console (openAdminPower), case "5", THE GREAT TAX: users.get() and the
\* loop that fills the batch from the credits it read
AdminName == "a"                  \* the document id "Nihal Gupta"

Tax(credits) == credits \div 10   \* Math.floor(credits * 0.10)

openAdminPower_tax(s) ==
  /\ Start(s)
  /\ Goto(s, "tax_commit",
          [NoLocals EXCEPT !.seen = {n \in Names : users[n].exists /\ n # AdminName},
                           !.read = Credits])
  /\ UNCHANGED <<users, bounties, cache, bstate, now, logs, book>>

\* the users collection after the batch: the credits read minus their tax for
\* every subject, an increment by the total for the admin
TaxedDocs(seen, read) ==
  [n \in Names |->
     IF n \in seen THEN [users[n] EXCEPT !.credits = read[n] - Tax(read[n])]
     ELSE IF n = AdminName
          THEN [users[n] EXCEPT !.credits = @ + SumOver([m \in Names |-> Tax(read[m])], seen)]
     ELSE users[n]]

\* batch.commit()
openAdminPower_tax_commit(s) ==
  /\ pc[s] = "tax_commit"
  /\ IF ~users[AdminName].exists \/ \E n \in loc[s].seen : ~users[n].exists THEN
       \* a batch with an update of a missing document fails as a whole
       Finish(s, "NotFound", FALSE) /\ UNCHANGED users
     ELSE
       /\ users' = TaxedDocs(loc[s].seen, loc[s].read)
       /\ Finish(s, "taxed", TRUE)
  /\ UNCHANGED <<bounties, cache, bstate, now, logs, book, calls>>

\* ------------------------------------------------------------------------
\* bounty.js
\* ------------------------------------------------------------------------
\* db.runTransaction body of executeBountyTransaction: its outcome ...
BountyOutcome(placer, target) ==
  IF ~users[placer].exists \/ ~users[target].exists THEN "NotFound"
  ELSE IF users[target].isBounty THEN "AlreadyTargeted"
  ELSE IF users[placer].credits < BOUNTY_CONFIG_cost THEN "InsufficientFunds"
  ELSE "ok"

\* ... and the users collection after its two updates
BountyCommit(placer, target) ==
  [n \in Names |->
     IF n = target THEN [users[n] EXCEPT !.isBounty = TRUE, !.bountyPlacer = placer, !.bountyTime = now]
     ELSE IF n = placer THEN [users[n] EXCEPT !.credits = users[placer].credits - BOUNTY_CONFIG_cost]
     ELSE users[n]]

executeBountyTransaction(placer, target) ==
  users' = IF BountyOutcome(placer, target) = "ok" THEN BountyCommit(placer, target) ELSE users

\* scheduleExpiration: replaces the session's timer for username
scheduleExpiration(b, username, fireAt) ==
  [b EXCEPT !.expirationTimers[username] = fireAt]

placeBounty(s, me, targetName) ==
  /\ Start(s)
  /\ UNCHANGED <<bounties, cache, now, logs, book>>
  /\ IF targetName = me THEN
       Finish(s, "SelfBounty", FALSE) /\ UNCHANGED <<users, bstate>>
     ELSE IF now - bstate[s].lastBountyTime < BOUNTY_CONFIG_cooldown THEN
       Finish(s, "Cooldown", FALSE) /\ UNCHANGED <<users, bstate>>
     ELSE IF Cardinality(bstate[s].activeBounties) >= BOUNTY_CONFIG_maxActiveBounties THEN
       Finish(s, "MaxActive", FALSE) /\ UNCHANGED <<users, bstate>>
     ELSE
       /\ executeBountyTransaction(me, targetName)
       /\ Finish(s, BountyOutcome(me, targetName), BountyOutcome(me, targetName) = "ok")
       /\ bstate' = IF BountyOutcome(me, targetName) = "ok"
                    THEN [bstate EXCEPT ![s] =
                            scheduleExpiration(
                              [@ EXCEPT !.lastBountyTime = now,
                                        !.activeBounties = @ \cup {targetName}],
                              targetName, now + BOUNTY_CONFIG_duration)]
                    ELSE bstate

\* expireBounty, first half: userRef.get() and the two early returns
expireBounty_get(s, username) ==
  /\ IF ~users[username].exists \/ ~users[username].isBounty
     THEN Finish(s, "NothingToExpire", FALSE)
     ELSE Goto(s, "expire_update", [NoLocals EXCEPT !.target = username])
  /\ UNCHANGED <<users, bounties, cache, now, logs, book>>

\* expireBounty, second half: userRef.update(...) on whatever the document is by now
ExpiredDoc(doc) == [doc EXCEPT !.isBounty = FALSE, !.bountyPlacer = NoOne, !.bountyTime = 0]

\* the users collection after the update of expireBounty
expireBounty_refunding(u) ==
  [n \in Names |->
     IF n = u THEN ExpiredDoc(users[n])
     ELSE IF n = users[u].bountyPlacer /\ users[u].isBounty
          THEN [users[n] EXCEPT !.credits = @ + BOUNTY_CONFIG_cost]
     ELSE users[n]]
expireBounty_write(u) == [users EXCEPT ![u] = ExpiredDoc(@)]

\* stakes of the marks that a step removes
Forfeited == BOUNTY_CONFIG_cost *
  Cardinality({n \in Names : users[n].exists /\ users[n].isBounty /\ ~users'[n].isBounty})

expireBounty_update(s) ==
  /\ pc[s] = "expire_update"
  /\ LET u == loc[s].target IN
       IF ~users[u].exists THEN
         Finish(s, "NotFound", FALSE) /\ UNCHANGED <<users, book>>
       ELSE
         /\ users' = expireBounty_write(u)
         /\ book' = [book EXCEPT !.forfeited = @ + Forfeited]
         /\ Goto(s, "expire_message", [loc[s] EXCEPT !.wrote = TRUE])
  /\ UNCHANGED <<bounties, cache, bstate, now, logs, calls>>

\* expireBounty: db.collection('messages').add({... has EXPIRED ...})
ExpiredMessage(username) ==
  [user |-> "SYSTEM", target |-> username, type |-> "MSG", text |-> "EXPIRED"]

expireBounty_message(s) ==
  /\ pc[s] = "expire_message"
  /\ logs' = [logs EXCEPT !.messages = @ (+) SetToBag({ExpiredMessage(loc[s].target)})]
  /\ Finish(s, "expired", TRUE)
  /\ UNCHANGED <<users, bounties, cache, bstate, now, book, calls>>

\* startBountyMonitor: the snapshot listener sees a marked user
startBountyMonitor(s, username) ==
  /\ Start(s)
  /\ users[username].exists /\ users[username].isBounty
  /\ IF now - users[username].bountyTime >= BOUNTY_CONFIG_duration
     THEN expireBounty_get(s, username) /\ UNCHANGED bstate
     ELSE /\ bstate' = [bstate EXCEPT ![s] =
                          scheduleExpiration(@, username,
                            now + (BOUNTY_CONFIG_duration - (now - users[username].bountyTime)))]
          /\ Finish(s, "scheduled", FALSE)
          /\ UNCHANGED <<users, bounties, cache, now, logs, book>>

\* the setTimeout callback armed by scheduleExpiration
expirationTimer(s, username) ==
  /\ Start(s)
  /\ bstate[s].expirationTimers[username] # NoTimer
  /\ now >= bstate[s].expirationTimers[username]
  /\ expireBounty_get(s, username)
  /\ bstate' = [bstate EXCEPT ![s].expirationTimers[username] = NoTimer]

\* admin.js adminClearBounties: query of the marked users, then one batch
adminClearBounties(s) ==
  /\ Start(s)
  /\ Goto(s, "clear_commit",
          [NoLocals EXCEPT !.seen = {n \in Names : users[n].exists /\ users[n].isBounty}])
  /\ UNCHANGED <<users, bounties, cache, bstate, now, logs, book>>

adminClearBounties_commit(s) ==
  /\ pc[s] = "clear_commit"
  /\ IF \E n \in loc[s].seen : ~users[n].exists THEN
       \* a batch with an update of a missing document fails as a whole
       Finish(s, "NotFound", FALSE) /\ UNCHANGED <<users, book>>
     ELSE
       /\ users' = [n \in Names |-> IF n \in loc[s].seen THEN ExpiredDoc(users[n]) ELSE users[n]]
       /\ book' = [book EXCEPT !.forfeited = @ + Forfeited]
       /\ Finish(s, "cleared", loc[s].seen # {})
  /\ UNCHANGED <<bounties, cache, bstate, now, logs, calls>>

\* legacy bounty script: placeBounty.  The transaction reads only the placer
\* and updates the target without looking at it.  The body of the transaction
\* also calls db.collection("messages").add(...), a plain write that is not
\* part of the transaction: it happens when the body runs, whether or not the
\* transaction then commits.
ContractOpenMessage(targetName) ==
  [user |-> "SYSTEM", target |-> targetName, type |-> "TEXT", text |-> "CONTRACT OPEN"]

placeBounty_legacy(s, me, targetName) ==
  /\ Start(s)
  /\ UNCHANGED <<bounties, cache, bstate, now, book>>
  /\ IF targetName = me THEN
       Finish(s, "SelfBounty", FALSE) /\ UNCHANGED <<users, logs>>
     ELSE IF ~users[me].exists \/ users[me].credits < BOUNTY_CONFIG_cost THEN
       Finish(s, "InsufficientFunds", FALSE) /\ UNCHANGED <<users, logs>>
     ELSE
       /\ logs' = [logs EXCEPT !.messages = @ (+) SetToBag({ContractOpenMessage(targetName)})]
       /\ IF ~users[targetName].exists THEN
            \* update of a missing document: the transaction fails as a whole
            Finish(s, "NotFound", FALSE) /\ UNCHANGED users
          ELSE
            /\ users' = BountyCommit(me, targetName)
            /\ Finish(s, "ok", TRUE)

\* ------------------------------------------------------------------------
\* voting.js: voteFor, executeVote, grantVotingReward, resets
\* ------------------------------------------------------------------------
\* db.runTransaction body of executeVote: its outcome ...
VoteOutcomeUnchecked(voter, target) ==
  IF ~users[voter].exists \/ ~users[target].exists THEN "NotFound" ELSE "ok"
VoteOutcome(voter, target) ==
  IF ~users[voter].exists \/ ~users[target].exists THEN "NotFound"
  ELSE IF users[voter].votesRemaining <= 0 THEN "NoVotesRemaining"
  ELSE "ok"

\* ... and the users collection after its two updates (one document gets
\* both when voter and target are the same)
VoteCommit(voter, target) ==
  [n \in Names |->
     LET d == IF n = voter
              THEN [users[n] EXCEPT !.votesRemaining = users[voter].votesRemaining - 1,
                                    !.totalVotesCast = @ + 1]
              ELSE users[n]
     IN IF n = target THEN [d EXCEPT !.totalVotesReceived = @ + 1] ELSE d]

\* a throw inside the transaction skips the call of logVote
VoteLoggedAlways(outcome) == TRUE
VoteLogged(outcome) == outcome = "ok"

\* logVote: one more document in the votes collection
logVote(voter, target) == [logs EXCEPT !.votes[voter][target] = @ + 1]

\* bookkeeping: one more successful vote of voter for target in this period
VoteCounted(voter, target) == [book EXCEPT !.cast[voter][target] = @ + 1]
\* bookkeeping: a global reset starts a new period for the accounts it resets
PeriodStarted(seen) ==
  [book EXCEPT !.cast = [v \in Names |-> IF v \in seen THEN [x \in Names |-> 0] ELSE book.cast[v]]]

\* executeVote(voter, target) called on its own: the transaction
executeVote(s, voter, target) ==
  /\ Start(s)
  /\ LET o == VoteOutcome(voter, target) IN
       /\ users' = IF o = "ok" THEN VoteCommit(voter, target) ELSE users
       /\ book' = IF o = "ok" THEN VoteCounted(voter, target) ELSE book
       /\ IF VoteLogged(o)
          THEN Goto(s, "vote_log", [NoLocals EXCEPT !.me = voter, !.target = target, !.wrote = (o = "ok")])
          ELSE Finish(s, o, FALSE)
  /\ UNCHANGED <<bounties, cache, bstate, now, logs>>

\* executeVote: await logVote(voter, target); an error of the add is swallowed
executeVote_logVote(s) ==
  /\ pc[s] = "vote_log"
  /\ \E appended \in BOOLEAN :
       logs' = IF appended THEN logVote(loc[s].me, loc[s].target) ELSE logs
  /\ Finish(s, "ok", loc[s].wrote)
  /\ UNCHANGED <<users, bounties, cache, bstate, now, book, calls>>

\* voteFor up to the check of the votes read by currentUserRef.get()
voteFor(s, me, targetName) ==
  /\ Start(s)
  /\ IF targetName = me THEN Finish(s, "SelfVote", FALSE)
     ELSE IF ~users[me].exists THEN Finish(s, "SessionExpired", FALSE)
     ELSE IF users[me].votesRemaining <= 0 THEN Finish(s, "NoVotesRemaining", FALSE)
     ELSE Goto(s, "vote_txn", [NoLocals EXCEPT !.me = me, !.target = targetName])
  /\ UNCHANGED <<users, bounties, cache, bstate, now, logs, book>>

\* voteFor: await executeVote(currentUser, targetName)
voteFor_executeVote(s) ==
  /\ pc[s] = "vote_txn"
  /\ LET o == VoteOutcome(loc[s].me, loc[s].target) IN
       /\ users' = IF o = "ok" THEN VoteCommit(loc[s].me, loc[s].target) ELSE users
       /\ book' = IF o = "ok" THEN VoteCounted(loc[s].me, loc[s].target) ELSE book
       /\ IF VoteLogged(o)
          THEN Goto(s, "votefor_log", [loc[s] EXCEPT !.wrote = (o = "ok")])
          ELSE Finish(s, o, FALSE)
  /\ UNCHANGED <<bounties, cache, bstate, now, logs, calls>>

\* voteFor: the logVote at the end of executeVote
voteFor_logVote(s) ==
  /\ pc[s] = "votefor_log"
  /\ \E appended \in BOOLEAN :
       logs' = IF appended THEN logVote(loc[s].me, loc[s].target) ELSE logs
  /\ Goto(s, "vote_reward", loc[s])
  /\ UNCHANGED <<users, bounties, cache, bstate, now, book, calls>>

\* voteFor: grantVotingReward(), an update of its own whose error is swallowed
voteFor_grantVotingReward(s) ==
  /\ pc[s] = "vote_reward"
  /\ users' = IF users[loc[s].me].exists
              THEN [users EXCEPT ![loc[s].me].credits = @ + ECONOMY_CONFIG_votingReward]
              ELSE users
  /\ Finish(s, "ok", TRUE)
  /\ UNCHANGED <<bounties, cache, bstate, now, logs, book, calls>>

\* checkVoteReset: the get() and the test of the interval
checkVoteReset(s, me) ==
  /\ Start(s)
  /\ IF ~users[me].exists THEN Finish(s, "NotFound", FALSE)
     ELSE IF now - users[me].lastVoteReset >= VOTING_CONFIG_voteResetInterval
     THEN Goto(s, "reset_update", [NoLocals EXCEPT !.me = me])
     ELSE Finish(s, "NotDue", FALSE)
  /\ UNCHANGED <<users, bounties, cache, bstate, now, logs, book>>

\* checkVoteReset: the update()
checkVoteReset_update(s) ==
  /\ pc[s] = "reset_update"
  /\ IF ~users[loc[s].me].exists THEN
       Finish(s, "NotFound", FALSE) /\ UNCHANGED users
     ELSE
       /\ users' = [users EXCEPT ![loc[s].me].votesRemaining = VOTING_CONFIG_maxVotesPerUser,
                                 ![loc[s].me].lastVoteReset = now]
       /\ Finish(s, "autoReset", TRUE)
  /\ UNCHANGED <<bounties, cache, bstate, now, logs, book, calls>>

\* resetAllVotes: db.collection('users').get()
resetAllVotes(s) ==
  /\ Start(s)
  /\ Goto(s, "resetall_commit", [NoLocals EXCEPT !.seen = {n \in Names : users[n].exists}])
  /\ UNCHANGED <<users, bounties, cache, bstate, now, logs, book>>

\* the users collection u after the batch of resetAllVotes over the documents seen
ResetAllDocsAdding(u, seen) ==
  [n \in Names |-> IF n \in seen
                   THEN [u[n] EXCEPT !.votesRemaining = @ + VOTING_CONFIG_maxVotesPerUser]
                   ELSE u[n]]
ResetAllDocs(u, seen) ==
  [n \in Names |-> IF n \in seen
                   THEN [u[n] EXCEPT !.votesRemaining = VOTING_CONFIG_maxVotesPerUser]
                   ELSE u[n]]

\* resetAllVotes: batch.commit()
resetAllVotes_commit(s) ==
  /\ pc[s] = "resetall_commit"
  /\ IF \E n \in loc[s].seen : ~users[n].exists THEN
       Finish(s, "NotFound", FALSE) /\ UNCHANGED <<users, book>>
     ELSE
       /\ users' = ResetAllDocs(users, loc[s].seen)
       /\ book' = PeriodStarted(loc[s].seen)
       /\ Finish(s, "reset", TRUE)
  /\ UNCHANGED <<bounties, cache, bstate, now, logs, calls>>

\* admin.js adminResetVotes: db.collection('users').get()
adminResetVotes(s) ==
  /\ Start(s)
  /\ Goto(s, "adminreset_commit", [NoLocals EXCEPT !.seen = {n \in Names : users[n].exists}])
  /\ UNCHANGED <<users, bounties, cache, bstate, now, logs, book>>

\* the users collection u after the batch of adminResetVotes over the documents seen
AdminResetDocs(u, seen) ==
  [n \in Names |-> IF n \in seen THEN [u[n] EXCEPT !.votesRemaining = 3] ELSE u[n]]

\* admin.js adminResetVotes: batch.commit()
adminResetVotes_commit(s) ==
  /\ pc[s] = "adminreset_commit"
  /\ IF \E n \in loc[s].seen : ~users[n].exists THEN
       Finish(s, "NotFound", FALSE) /\ UNCHANGED <<users, book>>
     ELSE
       /\ users' = AdminResetDocs(users, loc[s].seen)
       /\ book' = PeriodStarted(loc[s].seen)
       /\ Finish(s, "reset", TRUE)
  /\ UNCHANGED <<bounties, cache, bstate, now, logs, calls>>

\* ------------------------------------------------------------------------
\* weekly voting script: isVotingOpen, castVote, resetWeeklyVotes
\* ------------------------------------------------------------------------
WeekMs == 7 * 24 * 60 * 60 * 1000
\* start is the beginning of the week that holds t, end is seven days later
isVotingOpen(t) ==
  LET start == t - (t % WeekMs)
      end == start + WeekMs
  IN t >= start /\ t < end

CastOutcome(me, target) ==
  IF ~users[me].exists THEN "NotFound"
  ELSE IF users[me].votesRemaining <= 0 THEN "NoVotesRemaining"
  ELSE IF users[me].votesGiven[target] >= MAX_VOTES_PER_TARGET_PER_WEEK THEN "TargetCapReached"
  ELSE "ok"

CastCommit(me, target) ==
  [n \in Names |->
     IF n = me THEN [users[n] EXCEPT !.votesRemaining = @ - 1,
                                     !.credits = @ + VOTING_CREDIT_REWARD,
                                     !.votesGiven[target] = @ + 1]
     ELSE IF n = target THEN
       IF users[n].exists
       THEN [users[n] EXCEPT !.totalVotesReceived = @ + 1, !.voters[me] = @ + 1]
       ELSE [Absent EXCEPT !.exists = TRUE, !.totalVotesReceived = 1, !.voters[me] = 1]
     ELSE users[n]]

castVote(s, myName, targetUserName) ==
  /\ Start(s)
  /\ UNCHANGED <<bounties, cache, bstate, now, logs>>
  /\ IF myName = targetUserName THEN
       Finish(s, "SelfVote", FALSE) /\ UNCHANGED <<users, book>>
     ELSE IF ~isVotingOpen(now) THEN
       Finish(s, "VotingClosed", FALSE) /\ UNCHANGED <<users, book>>
     ELSE IF CastOutcome(myName, targetUserName) # "ok" THEN
       Finish(s, CastOutcome(myName, targetUserName), FALSE) /\ UNCHANGED <<users, book>>
     ELSE
       /\ users' = CastCommit(myName, targetUserName)
       /\ book' = VoteCounted(myName, targetUserName)
       /\ Finish(s, "ok", TRUE)

\* resetWeeklyVotes: db.collection("users").get(); amount 1 stands for resetTotalVotes
resetWeeklyVotes(s, resetTotalVotes) ==
  /\ Start(s)
  /\ Goto(s, "resetweekly_commit",
          [NoLocals EXCEPT !.seen = {n \in Names : users[n].exists},
                           !.amount = IF resetTotalVotes THEN 1 ELSE 0])
  /\ UNCHANGED <<users, bounties, cache, bstate, now, logs, book>>

WeeklyResetDocWithCredits(doc, resetTotalVotes) ==
  [doc EXCEPT !.votesRemaining = VOTES_PER_WEEK, !.votesGiven = [n \in Names |-> 0],
              !.credits = AUTH_CONFIG_defaultCredits]
WeeklyResetDoc(doc, resetTotalVotes) ==
  LET d == [doc EXCEPT !.votesRemaining = VOTES_PER_WEEK, !.votesGiven = [n \in Names |-> 0]]
  IN IF resetTotalVotes
     THEN [d EXCEPT !.totalVotesReceived = 0, !.voters = [n \in Names |-> 0]]
     ELSE d

\* the users collection u after the batch of resetWeeklyVotes over the documents seen
WeeklyResetDocs(u, seen, resetTotalVotes) ==
  [n \in Names |-> IF n \in seen THEN WeeklyResetDoc(u[n], resetTotalVotes) ELSE u[n]]

\* resetWeeklyVotes: batch.commit()
resetWeeklyVotes_commit(s) ==
  /\ pc[s] = "resetweekly_commit"
  /\ IF \E n \in loc[s].seen : ~users[n].exists THEN
       Finish(s, "NotFound", FALSE) /\ UNCHANGED <<users, book>>
     ELSE
       /\ users' = WeeklyResetDocs(users, loc[s].seen, loc[s].amount = 1)
       /\ book' = PeriodStarted(loc[s].seen)
       /\ Finish(s, "reset", TRUE)
  /\ UNCHANGED <<bounties, cache, bstate, now, logs, calls>>

\* ------------------------------------------------------------------------
\* admin panel: bulkSetBan;  auth.js: handleRegister
\* ------------------------------------------------------------------------
\* js_admin.js bulkSetBan: one batch of updates over the selected rows
bulkSetBan(s, selected, shouldBan) ==
  /\ Start(s)
  /\ selected # {}
  /\ IF \E n \in selected : ~users[n].exists THEN
       Finish(s, "NotFound", FALSE) /\ UNCHANGED users
     ELSE
       /\ users' = [n \in Names |-> IF n \in selected
                                    THEN [users[n] EXCEPT !.banned = shouldBan]
                                    ELSE users[n]]
       /\ Finish(s, "ok", TRUE)
  /\ UNCHANGED <<bounties, cache, bstate, now, logs, book>>

\* handleRegister: userRef.get() and the test of userDoc.exists
handleRegister(s, name, roll) ==
  /\ Start(s)
  /\ IF users[name].exists
     THEN Finish(s, "AlreadyExists", FALSE)
     ELSE Goto(s, "register_roll", [NoLocals EXCEPT !.me = name, !.amount = roll])
  /\ UNCHANGED <<users, bounties, cache, bstate, now, logs, book>>

\* handleRegister: the query for a document with the same rollNumber
handleRegister_rollQuery(s) ==
  /\ pc[s] = "register_roll"
  /\ IF \E n \in Names : users[n].exists /\ users[n].rollNumber = loc[s].amount
     THEN Finish(s, "RollTaken", FALSE)
     ELSE Goto(s, "register_set", loc[s])
  /\ UNCHANGED <<users, bounties, cache, bstate, now, logs, book, calls>>

\* handleRegister: userRef.set({...}) replaces whatever document is there
handleRegister_set(s) ==
  /\ pc[s] = "register_set"
  /\ users' = [users EXCEPT ![loc[s].me] = [NewAccount EXCEPT !.rollNumber = loc[s].amount]]
  /\ Finish(s, "registered", TRUE)
  /\ UNCHANGED <<bounties, cache, bstate, now, logs, book, calls>>

\* ------------------------------------------------------------------------
\* registration with a referral code (the auth script with AUTH_CONFIG.referralBonus*)
\* ------------------------------------------------------------------------
\* handleRegister: userRef.get() and the test of userDoc.exists; referredBy is
\* the referral field, NoOne when it was left empty
handleRegisterReferral(s, name, roll, referredBy) ==
  /\ Start(s)
  /\ IF users[name].exists
     THEN Finish(s, "AlreadyExists", FALSE)
     ELSE Goto(s, "refreg_roll", [NoLocals EXCEPT !.me = name, !.amount = roll,
                                                 !.target = referredBy])
  /\ UNCHANGED <<users, bounties, cache, bstate, now, logs, book>>

\* the query for a document with the same rollNumber
handleRegisterReferral_rollQuery(s) ==
  /\ pc[s] = "refreg_roll"
  /\ IF \E n \in Names : users[n].exists /\ users[n].rollNumber = loc[s].amount
     THEN Finish(s, "RollTaken", FALSE)
     ELSE IF loc[s].target # NoOne THEN Goto(s, "refreg_referrer", loc[s])
     ELSE Goto(s, "refreg_set", loc[s])
  /\ UNCHANGED <<users, bounties, cache, bstate, now, logs, book, calls>>

\* referrerRef.get(): seen = {referrer} stands for referrerExists
handleRegisterReferral_referrerGet(s) ==
  /\ pc[s] = "refreg_referrer"
  /\ Goto(s, "refreg_set",
          [loc[s] EXCEPT !.seen = IF users[loc[s].target].exists THEN {loc[s].target} ELSE {}])
  /\ UNCHANGED <<users, bounties, cache, bstate, now, logs, book, calls>>

\* userRef.set({... credits: initialCredits ...})
RegisteredDoc(roll, referrerExists) ==
  [NewAccount EXCEPT !.rollNumber = roll,
                     !.credits = AUTH_CONFIG_defaultCredits
                                 + (IF referrerExists THEN AUTH_CONFIG_referralBonusNew ELSE 0),
                     !.votesRemaining = AUTH_CONFIG_defaultVotes]

handleRegisterReferral_set(s) ==
  /\ pc[s] = "refreg_set"
  /\ users' = [users EXCEPT ![loc[s].me] = RegisteredDoc(loc[s].amount, loc[s].seen # {})]
  /\ IF loc[s].seen # {}
     THEN Goto(s, "refreg_reward", [loc[s] EXCEPT !.wrote = TRUE])
     ELSE Finish(s, "registered", TRUE)
  /\ UNCHANGED <<bounties, cache, bstate, now, logs, book, calls>>

\* referrerRef.update({credits: increment(...), totalReferrals: increment(1)})
rewardReferrerSame(referrer) ==
  [users EXCEPT ![referrer].credits = @ + AUTH_CONFIG_referralBonusNew]
rewardReferrer(referrer) ==
  [users EXCEPT ![referrer].credits = @ + AUTH_CONFIG_referralBonusReferrer]

handleRegisterReferral_reward(s) ==
  /\ pc[s] = "refreg_reward"
  /\ IF ~users[loc[s].target].exists THEN
       \* update of a missing document throws; the catch reports a failed registration
       Finish(s, "RegistrationFailed", TRUE) /\ UNCHANGED users
     ELSE
       /\ users' = rewardReferrer(loc[s].target)
       /\ Goto(s, "refreg_message", loc[s])
  /\ UNCHANGED <<bounties, cache, bstate, now, logs, book, calls>>

\* db.collection('messages').add({user: 'SYSTEM', type: 'MSG', ...})
handleRegisterReferral_message(s) ==
  /\ pc[s] = "refreg_message"
  /\ logs' = [logs EXCEPT !.messages = @ (+) SetToBag({[user |-> "SYSTEM",
                                                        target |-> loc[s].me,
                                                        type |-> "MSG"]})]
  /\ Finish(s, "registered", TRUE)
  /\ UNCHANGED <<users, bounties, cache, bstate, now, book, calls>>

\* The state after account a has cast k votes for b with voteFor (k < 3)
InitVoted(k) ==
  /\ users = [n \in Names |->
       IF n = "a" THEN [NewAccount EXCEPT !.rollNumber = RollOf[n],
                                          !.votesRemaining = AUTH_CONFIG_defaultVotes - k,
                                          !.totalVotesCast = k,
                                          !.credits = @ + k * ECONOMY_CONFIG_votingReward]
       ELSE IF n = "b" THEN [NewAccount EXCEPT !.rollNumber = RollOf[n], !.totalVotesReceived = k]
       ELSE Absent]
  /\ bounties = <<>>
  /\ pc = [s \in Sessions |-> "idle"]
  /\ loc = [s \in Sessions |-> NoLocals]
  /\ result = [s \in Sessions |-> "none"]
  /\ cache = [s \in Sessions |-> [me |-> NoOne, credits |-> [n \in Names |-> 0], listed |-> {},
                                   activeBounties |-> {}]]
  /\ bstate = [s \in Sessions |-> [lastBountyTime |-> 0, activeBounties |-> {},
                                    expirationTimers |-> [n \in Names |-> NoTimer]]]
  /\ now = StartTime
  /\ logs = [votes |-> [v \in Names |-> [t \in Names |->
                          IF v = "a" /\ t = "b" THEN k ELSE 0]],
             transactions |-> EmptyBag, gifts |-> EmptyBag, messages |-> EmptyBag,
             economy |-> NoSettings]
  /\ book = [fees |-> 0, forfeited |-> 0, giftNet |-> [n \in Names |-> 0],
             cast |-> [v \in Names |-> [t \in Names |->
                          IF v = "a" /\ t = "b" THEN k ELSE 0]]]
  /\ calls = 0

\* The state after account b has run the legacy placeBounty on a twice: b has
\* paid 50,000 twice and has no credits left, a still has its 100,000
InitDrained ==
  /\ users = [n \in Names |->
       IF n = "a" THEN [NewAccount EXCEPT !.rollNumber = RollOf[n], !.isBounty = TRUE,
                                          !.bountyPlacer = "b", !.bountyTime = StartTime]
       ELSE IF n = "b" THEN [NewAccount EXCEPT !.rollNumber = RollOf[n],
                                               !.credits = @ - 2 * BOUNTY_CONFIG_cost]
       ELSE Absent]
  /\ bounties = <<>>
  /\ pc = [s \in Sessions |-> "idle"]
  /\ loc = [s \in Sessions |-> NoLocals]
  /\ result = [s \in Sessions |-> "none"]
  /\ cache = [s \in Sessions |-> [me |-> NoOne, credits |-> [n \in Names |-> 0], listed |-> {},
                                   activeBounties |-> {}]]
  /\ bstate = [s \in Sessions |-> [lastBountyTime |-> 0, activeBounties |-> {},
                                    expirationTimers |-> [n \in Names |-> NoTimer]]]
  /\ now = StartTime
  /\ logs = [votes |-> [v \in Names |-> [t \in Names |-> 0]],
             transactions |-> EmptyBag, gifts |-> EmptyBag, messages |-> EmptyBag,
             economy |-> NoSettings]
  /\ book = [fees |-> 0, forfeited |-> 0, giftNet |-> [n \in Names |-> 0],
             cast |-> [v \in Names |-> [t \in Names |-> 0]]]
  /\ calls = 0

\* The state after the page of session s1, signed in as a, has placed a bounty
\* on b two hours ago and one on c an hour ago, and its timers have expired
\* both: a has paid 50,000 twice, b and c carry no mark any more
InitHunting ==
  /\ users = [n \in Names |->
       IF n = "a" THEN [NewAccount EXCEPT !.rollNumber = RollOf[n],
                                          !.credits = @ - 2 * BOUNTY_CONFIG_cost]
       ELSE [NewAccount EXCEPT !.rollNumber = RollOf[n]]]
  /\ bounties = <<>>
  /\ pc = [s \in Sessions |-> "idle"]
  /\ loc = [s \in Sessions |-> NoLocals]
  /\ result = [s \in Sessions |-> "none"]
  /\ cache = [s \in Sessions |-> [me |-> NoOne, credits |-> [n \in Names |-> 0], listed |-> {},
                                   activeBounties |-> {}]]
  /\ bstate = [s \in Sessions |->
                 [lastBountyTime |-> IF s = "s1" THEN StartTime - BOUNTY_CONFIG_duration ELSE 0,
                  activeBounties |-> IF s = "s1" THEN {"b", "c"} ELSE {},
                  expirationTimers |-> [n \in Names |-> NoTimer]]]
  /\ now = StartTime
  /\ logs = [votes |-> [v \in Names |-> [t \in Names |-> 0]],
             transactions |-> EmptyBag, gifts |-> EmptyBag,
             messages |-> SetToBag({ExpiredMessage("b"), ExpiredMessage("c")}),
             economy |-> NoSettings]
  /\ book = [fees |-> 0, forfeited |-> 2 * BOUNTY_CONFIG_cost, giftNet |-> [n \in Names |-> 0],
             cast |-> [v \in Names |-> [t \in Names |-> 0]]]
  /\ calls = 0

\* ------------------------------------------------------------------------
\* Specifications
\* ------------------------------------------------------------------------
\* the transactional engine: economy transfer, chat gift, bounty.js placement
\* and expiry, admin clear
NextEngine ==
  \/ Tick
  \/ \E s \in Sessions, me \in Names, r \in Names, amt \in TransferAmounts : transferCredits(s, me, r, amt)
  \/ \E s \in Sessions : transferCredits_logTransaction(s)
  \/ \E s \in Sessions, me \in Names, r \in Names, p \in GiftPrices : openGiftModal(s, me, r, p)
  \/ \E s \in Sessions : executeGiftTransaction_message(s)
  \/ \E s \in Sessions, me \in Names, t \in Names : placeBounty(s, me, t)
  \/ \E s \in Sessions, u \in Names : startBountyMonitor(s, u)
  \/ \E s \in Sessions, u \in Names : expirationTimer(s, u)
  \/ \E s \in Sessions : expireBounty_update(s)
  \/ \E s \in Sessions : expireBounty_message(s)
  \/ \E s \in Sessions : adminClearBounties(s)
  \/ \E s \in Sessions : adminClearBounties_commit(s)

SpecEngine == InitTwo /\ [][NextEngine]_vars

\* every way of sending a gift: the chat gift modal, the legacy chat gift and
\* the dashboard page
NextGifts ==
  \/ \E s \in Sessions, me \in Names, r \in Names, p \in GiftPrices : openGiftModal(s, me, r, p)
  \/ \E s \in Sessions : executeGiftTransaction_message(s)
  \/ \E s \in Sessions, me \in Names, r \in Names, p \in GiftPrices : executeGift(s, me, r, p)
  \/ \E s \in Sessions, me \in Names : Dashboard_mount(s, me)
  \/ \E s \in Sessions, r \in Names, p \in GiftPrices : sendGift(s, r, p)
  \/ \E s \in Sessions : sendGift_debit(s)
  \/ \E s \in Sessions : sendGift_credit(s)

SpecGifts == InitTwo /\ [][NextGifts]_vars

\* the dashboard page next to the transactional flows, with the admin deleting users
NextPage ==
  \/ \E s \in Sessions, me \in Names : Dashboard_mount(s, me)
  \/ \E s \in Sessions, r \in Names, p \in GiftPrices : sendGift(s, r, p)
  \/ \E s \in Sessions : sendGift_debit(s)
  \/ \E s \in Sessions : sendGift_credit(s)
  \/ \E s \in Sessions, me \in Names, t \in Names : placeBounty(s, me, t)
  \/ \E s \in Sessions, me \in Names, t \in Names : voteFor(s, me, t)
  \/ \E s \in Sessions : voteFor_executeVote(s)
  \/ \E s \in Sessions : voteFor_logVote(s)
  \/ \E s \in Sessions : voteFor_grantVotingReward(s)
  \/ \E s \in Sessions, n \in Names : deleteUser(s, n)

SpecPage == InitTwo /\ [][NextPage]_vars

\* credit removals by the admin next to gifts and bounty placements
NextAdmin ==
  \/ \E s \in Sessions, me \in Names, r \in Names, p \in GiftPrices : openGiftModal(s, me, r, p)
  \/ \E s \in Sessions : executeGiftTransaction_message(s)
  \/ \E s \in Sessions, me \in Names, t \in Names : placeBounty(s, me, t)
  \/ \E s \in Sessions, me \in Names : Dashboard_mount(s, me)
  \/ \E s \in Sessions, t \in Names : placeBounty_page(s, t, BOUNTY_CONFIG_cost)
  \/ \E s \in Sessions : placeBounty_page_debit(s)
  \/ \E s \in Sessions, n \in Names, amt \in AdminAmounts : adminRemoveCredits(s, n, amt)
  \/ \E s \in Sessions : adminRemoveCredits_update(s)
  \/ \E s \in Sessions, n \in Names, d \in EditDeltas : openEditMenu(s, n, d)
  \/ \E s \in Sessions : openEditMenu_set(s)

SpecAdmin == InitTwo /\ [][NextAdmin]_vars

\* every way of placing a bounty: bounty.js, the legacy bounty script and the
\* dashboard page
NextBounty ==
  \/ \E s \in Sessions, me \in Names, t \in Names : placeBounty(s, me, t)
  \/ \E s \in Sessions, me \in Names, t \in Names : placeBounty_legacy(s, me, t)
  \/ \E s \in Sessions, me \in Names : Dashboard_mount(s, me)
  \/ \E s \in Sessions, t \in Names : placeBounty_page(s, t, BOUNTY_CONFIG_cost)
  \/ \E s \in Sessions : placeBounty_page_debit(s)

SpecBounty == Init /\ [][NextBounty]_vars

\* the life of a bounty on both stores: the marks of bounty.js on the users
\* documents with their listener and timers, and the bounties documents of the
\* dashboard page with its listener
NextExpiry ==
  \/ Tick
  \/ \E s \in Sessions, me \in Names, t \in Names : placeBounty(s, me, t)
  \/ \E s \in Sessions, u \in Names : startBountyMonitor(s, u)
  \/ \E s \in Sessions, u \in Names : expirationTimer(s, u)
  \/ \E s \in Sessions : expireBounty_update(s)
  \/ \E s \in Sessions : expireBounty_message(s)
  \/ \E s \in Sessions, me \in Names : Dashboard_mount(s, me)
  \/ \E s \in Sessions, t \in Names : placeBounty_page(s, t, BOUNTY_CONFIG_cost)
  \/ \E s \in Sessions : placeBounty_page_debit(s)
  \/ \E s \in Sessions : onBountiesSnapshot(s)

\* the browser's event loop runs every callback that is due: time passes, the
\* listeners and timers fire, and a pending await resumes
FairExpiry ==
  /\ WF_vars(Tick)
  /\ \A s \in Sessions : WF_vars(onBountiesSnapshot(s))
  /\ \A s \in Sessions : WF_vars(expireBounty_update(s))
  /\ \A s \in Sessions : WF_vars(expireBounty_message(s))
  /\ \A s \in Sessions : WF_vars(placeBounty_page_debit(s))
  /\ \A s \in Sessions, u \in Names : WF_vars(startBountyMonitor(s, u))
  /\ \A s \in Sessions, u \in Names : WF_vars(expirationTimer(s, u))

SpecExpiry == InitTwo /\ [][NextExpiry]_vars /\ FairExpiry

\* moving 30,000 credits (the price of a Laptop) in each of the three ways the
\* code has, starting with a = 100,000 and b = 0
NextScenario ==
  \/ \E s \in Sessions, me \in Names, r \in Names : transferCredits(s, me, r, LaptopPrice)
  \/ \E s \in Sessions : transferCredits_logTransaction(s)
  \/ \E s \in Sessions, me \in Names, r \in Names : openGiftModal(s, me, r, LaptopPrice)
  \/ \E s \in Sessions : executeGiftTransaction_message(s)
  \/ \E s \in Sessions, me \in Names : Dashboard_mount(s, me)
  \/ \E s \in Sessions, r \in Names : sendGift(s, r, LaptopPrice)
  \/ \E s \in Sessions : sendGift_debit(s)
  \/ \E s \in Sessions : sendGift_credit(s)

SpecScenario == InitDrained /\ [][NextScenario]_vars

\* registrations with and without a referral code, next to the admin deleting users
NextReferral ==
  \/ \E s \in Sessions, n \in Names, r \in Rolls, ref \in Names \cup {NoOne} :
       handleRegisterReferral(s, n, r, ref)
  \/ \E s \in Sessions : handleRegisterReferral_rollQuery(s)
  \/ \E s \in Sessions : handleRegisterReferral_referrerGet(s)
  \/ \E s \in Sessions : handleRegisterReferral_set(s)
  \/ \E s \in Sessions : handleRegisterReferral_reward(s)
  \/ \E s \in Sessions : handleRegisterReferral_message(s)
  \/ \E s \in Sessions, n \in Names : deleteUser(s, n)

SpecReferral == InitTwo /\ [][NextReferral]_vars

\* the gift transaction and the transfer applied to every pair of sender and
\* recipient, next to the gift modal that calls the transaction
NextSelfGift ==
  \/ \E s \in Sessions, me \in Names, r \in Names, p \in GiftPrices :
       executeGiftTransaction(s, me, r, p)
  \/ \E s \in Sessions, me \in Names, r \in Names, p \in GiftPrices : openGiftModal(s, me, r, p)
  \/ \E s \in Sessions : executeGiftTransaction_message(s)
  \/ \E s \in Sessions, me \in Names, r \in Names, amt \in TransferAmounts : transferCredits(s, me, r, amt)
  \/ \E s \in Sessions : transferCredits_logTransaction(s)

SpecSelfGift == InitTwo /\ [][NextSelfGift]_vars

\* the legacy chat and bounty scripts
NextLegacy ==
  \/ Tick
  \/ \E s \in Sessions, me \in Names, t \in Names : placeBounty_legacy(s, me, t)
  \/ \E s \in Sessions, me \in Names, r \in Names, p \in GiftPrices : executeGift(s, me, r, p)

SpecLegacy == InitTwo /\ [][NextLegacy]_vars

\* the tax command of the admin console next to gifts between the accounts
NextTax ==
  \/ \E s \in Sessions : openAdminPower_tax(s)
  \/ \E s \in Sessions : openAdminPower_tax_commit(s)
  \/ \E s \in Sessions, me \in Names, r \in Names, p \in GiftPrices : openGiftModal(s, me, r, p)
  \/ \E s \in Sessions : executeGiftTransaction_message(s)

SpecTax == Init /\ [][NextTax]_vars

\* the weekly votes of part_004 alone: castVote and resetWeeklyVotes
NextTally ==
  \/ \E s \in Sessions, me \in Names, t \in Names : castVote(s, me, t)
  \/ \E s \in Sessions, b \in BOOLEAN : resetWeeklyVotes(s, b)
  \/ \E s \in Sessions : resetWeeklyVotes_commit(s)

SpecTally == InitTwo /\ [][NextTally]_vars

\* a page of bounty.js that has placed bounties before: placements, timers and
\* expirations while time passes
NextHunt ==
  \/ Tick
  \/ \E s \in Sessions, me \in Names, t \in Names : placeBounty(s, me, t)
  \/ \E s \in Sessions, u \in Names : startBountyMonitor(s, u)
  \/ \E s \in Sessions, u \in Names : expirationTimer(s, u)
  \/ \E s \in Sessions : expireBounty_update(s)
  \/ \E s \in Sessions : expireBounty_message(s)

SpecHunt == InitHunting /\ [][NextHunt]_vars

\* bounties placed from the page of session s that are still active
ActiveBountiesOf(s) ==
  {t \in bstate[s].activeBounties : users[t].exists /\ users[t].isBounty}

\* the economy lock of the admin console next to transfers, gifts and bounty
\* placements
NextLock ==
  \/ \E s \in Sessions, status \in BOOLEAN : openAdminPower_lock(s, status)
  \/ \E s \in Sessions, me \in Names, r \in Names, amt \in TransferAmounts : transferCredits(s, me, r, amt)
  \/ \E s \in Sessions : transferCredits_logTransaction(s)
  \/ \E s \in Sessions, me \in Names, r \in Names, p \in GiftPrices : openGiftModal(s, me, r, p)
  \/ \E s \in Sessions : executeGiftTransaction_message(s)
  \/ \E s \in Sessions, me \in Names, t \in Names : placeBounty(s, me, t)

SpecLock == InitTwo /\ [][NextLock]_vars

\* the daily bonus claimed from the sessions of the users, while time passes
\* and the admin deletes accounts
NextBonus ==
  \/ Tick
  \/ \E s \in Sessions, me \in Names : claimDailyBonus(s, me)
  \/ \E s \in Sessions : claimDailyBonus_update(s)
  \/ \E s \in Sessions, n \in Names : deleteUser(s, n)

SpecBonus == InitTwo /\ [][NextBonus]_vars

\* voting: voting.js and the weekly voting script
NextVotes ==
  \/ \E s \in Sessions, me \in SignedIn, t \in Names : voteFor(s, me, t)
  \/ \E s \in Sessions : voteFor_executeVote(s)
  \/ \E s \in Sessions : voteFor_logVote(s)
  \/ \E s \in Sessions : voteFor_grantVotingReward(s)
  \/ \E s \in Sessions, me \in SignedIn, t \in Names : castVote(s, me, t)
  \/ \E s \in Sessions, me \in SignedIn : checkVoteReset(s, me)
  \/ \E s \in Sessions : checkVoteReset_update(s)
  \/ \E s \in Sessions : resetAllVotes(s)
  \/ \E s \in Sessions : resetAllVotes_commit(s)
  \/ \E s \in Sessions, b \in BOOLEAN : resetWeeklyVotes(s, b)
  \/ \E s \in Sessions : resetWeeklyVotes_commit(s)

SpecVotes == InitTwo /\ [][NextVotes]_vars

\* the vote transactions called on their own, with the admin banning accounts
NextBallot ==
  \/ \E s \in Sessions, v \in Names, t \in Names : executeVote(s, v, t)
  \/ \E s \in Sessions : executeVote_logVote(s)
  \/ \E s \in Sessions, me \in Names, t \in Names : castVote(s, me, t)
  \/ \E s \in Sessions, n \in Names, b \in BOOLEAN : bulkSetBan(s, {n}, b)

SpecBallot == InitTwo /\ [][NextBallot]_vars

\* one voting week of voting.js: votes, the per-user auto reset and the global reset
NextWeek ==
  \/ \E s \in Sessions, me \in Names, t \in Names : voteFor(s, me, t)
  \/ \E s \in Sessions : voteFor_executeVote(s)
  \/ \E s \in Sessions : voteFor_logVote(s)
  \/ \E s \in Sessions : voteFor_grantVotingReward(s)
  \/ \E s \in Sessions, me \in Names : checkVoteReset(s, me)
  \/ \E s \in Sessions : checkVoteReset_update(s)
  \/ \E s \in Sessions : resetAllVotes(s)
  \/ \E s \in Sessions : resetAllVotes_commit(s)

SpecWeek == (\E k \in 0..2 : InitVoted(k)) /\ [][NextWeek]_vars

\* the three global resets next to the weekly votes
NextReset ==
  \/ \E s \in Sessions, me \in Names, t \in Names : castVote(s, me, t)
  \/ \E s \in Sessions : resetAllVotes(s)
  \/ \E s \in Sessions : resetAllVotes_commit(s)
  \/ \E s \in Sessions : adminResetVotes(s)
  \/ \E s \in Sessions : adminResetVotes_commit(s)
  \/ \E s \in Sessions, b \in BOOLEAN : resetWeeklyVotes(s, b)
  \/ \E s \in Sessions : resetWeeklyVotes_commit(s)

SpecReset == InitTwo /\ [][NextReset]_vars

\* registrations next to gifts and votes of the existing accounts
NextRegister ==
  \/ \E s \in Sessions, n \in Names, r \in Rolls : handleRegister(s, n, r)
  \/ \E s \in Sessions : handleRegister_rollQuery(s)
  \/ \E s \in Sessions : handleRegister_set(s)
  \/ \E s \in Sessions, me \in Names, r \in Names, p \in GiftPrices : openGiftModal(s, me, r, p)
  \/ \E s \in Sessions : executeGiftTransaction_message(s)
  \/ \E s \in Sessions, me \in Names, t \in Names : castVote(s, me, t)

SpecRegister == InitTwo /\ [][NextRegister]_vars

\* everything together
Next ==
  \/ NextEngine \/ NextGifts \/ NextPage \/ NextAdmin \/ NextBounty \/ NextVotes
  \/ NextBallot \/ NextWeek \/ NextReset \/ NextRegister \/ NextExpiry
  \/ NextScenario \/ NextReferral \/ NextSelfGift \/ NextLegacy \/ NextTax \/ NextBonus \/ NextTally \/ NextHunt \/ NextLock

Spec == Init /\ [][Next]_vars

\* ------------------------------------------------------------------------
\* Properties
\* ------------------------------------------------------------------------
Registered == {n \in Names : users[n].exists}
InitialTotal == AUTH_CONFIG_defaultCredits * Cardinality(Registered)
Idle == \A s \in Sessions : pc[s] = "idle"
PreconditionFailures ==
  {"SelfVote", "NoVotesRemaining", "TargetCapReached", "InsufficientFunds", "NotFound", "AlreadyTargeted"}

C2_AtomicTransfer ==
  Idle => \A n \in Registered :
            /\ users[n].credits = AUTH_CONFIG_defaultCredits + book.giftNet[n]
            /\ users[n].credits >= 0

\* C3: the credits of every account are never negative.
C3_NonNegative == \A n \in Names : users[n].credits >= 0

\* C4: votesRemaining of every account is always between 0 and the weekly
\* allowance of 3, whatever the interleaving of votes and resets.
C4_VoteBound ==
  \A n \in Names :
    users[n].exists =>
      /\ users[n].votesRemaining >= 0
      /\ users[n].votesRemaining <= VOTING_CONFIG_maxVotesPerUser
      /\ users[n].votesRemaining <= VOTES_PER_WEEK

\* C4 witness: a vote was refused for lack of votes by an account that had
\* spent all of them
C4_Witness ==
  /\ \E s \in Sessions : result[s] = "NoVotesRemaining"
  /\ \E n \in Names : users[n].exists /\ users[n].votesRemaining = 0

\* C5: a vote of an account for itself never mutates state: no step spends a
\* vote of an account and adds a received vote to the same account.
C5_NoSelfVote ==
  [][\A n \in Names :
       ~(/\ users[n].exists
         /\ users'[n].votesRemaining < users[n].votesRemaining
         /\ users'[n].totalVotesReceived > users[n].totalVotesReceived)]_vars

\* live bounty documents of the dashboard on target t
ActiveBountiesOn(t) ==
  {i \in DOMAIN bounties : bounties[i].targetId = t /\ bounties[i].active /\ bounties[i].expiresAt > now}

\* C6: no target ever has two active bounties, and nobody is charged for a
\* target that is already marked: every step that takes credits either marks
\* a target that was not marked or is the debit for a dashboard bounty.
C6_OneActiveBountyPerTarget ==
  /\ [](\A t \in Names : Cardinality(ActiveBountiesOn(t)) <= 1)
  /\ [][TotalCredits' < TotalCredits =>
          \/ Escrow' > Escrow
          \/ \E s \in Sessions : pc[s] = "pbounty_debit" /\ pc'[s] = "idle"]_vars

\* C7 (as claimed): a step that expires (or clears) the bounty on a target
\* returns the stake of 50,000 to its placer.
C7_ExpiryRefundsPlacer ==
  [][\A u \in Names :
       (users[u].exists /\ users[u].isBounty /\ ~users'[u].isBounty)
         => users'[users[u].bountyPlacer].credits
              = users[users[u].bountyPlacer].credits + BOUNTY_CONFIG_cost]_vars

\* C7 (amended): a step that expires (or clears) the bounty on a target only
\* removes the mark (isBounty false, bountyPlacer and bountyTime deleted) and
\* changes nobody's credits: the stake of 50,000 is not returned.
C7_ExpiryForfeitsStake ==
  [][\A u \in Names :
       (users[u].exists /\ users[u].isBounty /\ ~users'[u].isBounty)
         => /\ \A n \in Names : users'[n].credits = users[n].credits
            /\ users'[u].bountyPlacer = NoOne
            /\ users'[u].bountyTime = 0]_vars

\* C7 witness: a bounty was placed and has expired, its stake gone
C7_Witness ==
  \E s \in Sessions : result[s] = "expired" /\ book.forfeited >= BOUNTY_CONFIG_cost

\* C8: a call that ended with a precondition failure has written no account
\* document.
C8_NoPartialMutation ==
  \A s \in Sessions : result[s] \in PreconditionFailures => ~loc[s].wrote

\* C9: the debit of the sender and the credit of the recipient are one commit:
\* every step that lowers the credits of an account raises those of another.
C9_PairedUpdate ==
  [][(\E a \in Names : users'[a].credits < users[a].credits)
       => (\E b \in Names : users'[b].credits > users[b].credits)]_vars

\* C10: every step that spends a vote of voter v also grants v the credit
\* reward, counts the vote in v.votesGiven for some target t and adds one to
\* the votes received by t.
C10_AtomicVoteEffect ==
  [][\A v \in Names :
       (users[v].exists /\ users'[v].votesRemaining < users[v].votesRemaining)
         => /\ users'[v].credits > users[v].credits
            /\ \E t \in Names :
                 /\ users'[v].votesGiven[t] = users[v].votesGiven[t] + 1
                 /\ users'[t].totalVotesReceived = users[t].totalVotesReceived + 1]_vars

\* C11: within one voting week (the whole behaviour lies in one, and a global
\* reset starts a new period) no account has cast more than 3 successful votes.
C11_ThreeVotesPerWeek ==
  \A v \in Names : SumOver(book.cast[v], Names) <= VOTING_CONFIG_maxVotesPerUser

\* C12: within one voting period no voter has more than
\* MAX_VOTES_PER_TARGET_PER_WEEK (2) successful votes for the same target.
C12_PerTargetCap ==
  \A v \in Names : \A x \in Names : book.cast[v][x] <= MAX_VOTES_PER_TARGET_PER_WEEK

\* records of the votes collection written for voter v
RecordsOf(v) == SumOver(logs.votes[v], Names)

\* C13: the votes collection never holds more records of a voter than votes
\* of that voter have committed (a record is appended only after its vote's
\* transaction committed, none for a vote that failed), and no step undoes a
\* committed vote, whether or not its record could be appended.
C13_RecordAfterCommit ==
  /\ [](\A v \in Names : users[v].exists => RecordsOf(v) <= users[v].totalVotesCast)
  /\ [][\A v \in Names : users'[v].totalVotesCast >= users[v].totalVotesCast]_vars

\* C13 witness: a vote committed and its record was appended, another vote
\* committed, its record could not be appended and the vote stayed
C13_Witness ==
  \E v \in Names :
    /\ users[v].exists /\ RecordsOf(v) > 0 /\ RecordsOf(v) < users[v].totalVotesCast
    /\ \A s \in Sessions : pc[s] = "idle"

\* documents of the users collection u
Existing(u) == {n \in Names : u[n].exists}

\* C14: from every reachable state, each of the global resets (resetAllVotes,
\* adminResetVotes, resetWeeklyVotes with and without resetTotalVotes) run
\* twice in a row leaves the same users collection as run once.
C14_IdempotentReset ==
  /\ LET once == ResetAllDocs(users, Existing(users))
     IN ResetAllDocs(once, Existing(once)) = once
  /\ LET once == AdminResetDocs(users, Existing(users))
     IN AdminResetDocs(once, Existing(once)) = once
  /\ \A b \in BOOLEAN :
       LET once == WeeklyResetDocs(users, Existing(users), b)
       IN WeeklyResetDocs(once, Existing(once), b) = once

\* C14 witness: votes were cast, then two resets completed one after the
\* other and the collection is what one reset leaves
C14_Witness ==
  /\ \A s \in Sessions : pc[s] = "idle" /\ result[s] = "reset"
  /\ \E n \in Names : users[n].exists /\ users[n].votesGiven # [x \in Names |-> 0]
  /\ users = ResetAllDocs(users, Existing(users))

ResetCommits == {"resetall_commit", "adminreset_commit", "resetweekly_commit"}

\* C15: when a global reset completes, every account has votesRemaining = 3
\* and an empty votesGiven map.
C15_ResetEffect ==
  [][\A s \in Sessions :
       (pc[s] \in ResetCommits /\ result'[s] = "reset")
         => \A n \in Names :
              users'[n].exists =>
                /\ users'[n].votesRemaining = VOTES_PER_WEEK
                /\ users'[n].votesGiven = [x \in Names |-> 0]]_vars

\* C16: a banned account cannot vote: no step spends a vote of an account
\* that is banned when the step commits.
C16_BannedCannotVote ==
  [][\A v \in Names :
       (users[v].exists /\ users[v].banned)
         => users'[v].votesRemaining >= users[v].votesRemaining]_vars

\* C17: a vote naming a target account that does not exist creates no account
\* document: no step of the vote transactions adds a document to users.
C17_MissingTargetNotFound ==
  [][\A n \in Names : ~users[n].exists => ~users'[n].exists]_vars

\* C18: a registration never writes over an existing account: the step that
\* creates the document of a registration finds no document with that id.
C18_UniqueAccountId ==
  [][\A s \in Sessions :
       (pc[s] = "register_set" /\ pc'[s] = "idle") => ~users[loc[s].me].exists]_vars

\* C19: the bounty on a target only moves none -> active -> expired / cleared:
\* an expiry or a clear is applied only to a target that has an active bounty,
\* and a target is marked only when it has none.
C19_BountyStateMachine ==
  [][/\ \A s \in Sessions :
          (pc[s] = "expire_update" /\ pc'[s] = "expire_message")
            => users[loc[s].target].isBounty
     /\ \A s \in Sessions :
          (pc[s] = "clear_commit" /\ result'[s] = "cleared")
            => \A n \in loc[s].seen : users[n].isBounty
     /\ \A u \in Names :
          (users[u].exists /\ users[u].isBounty /\ users'[u].isBounty)
            => /\ users'[u].bountyPlacer = users[u].bountyPlacer
               /\ users'[u].bountyTime = users[u].bountyTime]_vars

\* C20: an expiry removes an active bounty only when now >= its own
\* bountyTime + BOUNTY_CONFIG.duration.
C20_NoEarlyExpiry ==
  [][\A s \in Sessions :
       (/\ pc[s] = "expire_update" /\ pc'[s] = "expire_message"
        /\ users[loc[s].target].isBounty)
         => now >= users[loc[s].target].bountyTime + BOUNTY_CONFIG_duration]_vars

\* C21: an operation that reads a bounty which is past its expiry treats it as
\* expired: placeBounty is rejected as AlreadyTargeted only while some target
\* carries a bounty that has not yet reached bountyTime + BOUNTY_CONFIG.duration.
C21_LazyExpiryOnRead ==
  [][\A s \in Sessions :
       (pc[s] = "idle" /\ pc'[s] = "idle" /\ calls' = calls + 1
        /\ result'[s] = "AlreadyTargeted")
         => \E u \in Names :
              /\ users[u].exists /\ users[u].isBounty
              /\ now < users[u].bountyTime + BOUNTY_CONFIG_duration]_vars

\* C22: every bounty that is still active at its expiresAt eventually leaves
\* the active state once something reads it: no bounties document stays
\* active forever.
C22_EventualExpiry ==
  \A i \in 1..MaxBounties :
    (Len(bounties) >= i /\ bounties[i].active /\ now >= bounties[i].expiresAt
     /\ \E s \in Sessions : i \in cache[s].activeBounties)
      ~> ~(Len(bounties) >= i /\ bounties[i].active)

\* stakes of the active bounties documents of the dashboard page
PageStakes ==
  SumOver([i \in DOMAIN bounties |-> IF bounties[i].active THEN bounties[i].amount ELSE 0],
          DOMAIN bounties)

\* C23: placing a bounty debits the placer by exactly the stake in the same
\* atomic step that creates the active bounty: in every state the credits
\* taken from the accounts equal the stakes of the bounties that exist, so
\* there is no bounty without its debit and no debit without its bounty.
C23_AtomicStaking ==
  InitialTotal - TotalCredits = Escrow + PageStakes

\* C26: a write to an account is made in the transaction that read what it
\* depends on, never by a separate later write: when checkVoteReset writes
\* votesRemaining and lastVoteReset, the interval test it decided on still
\* holds for the document it writes.
C26_TransactionOnlyMutation ==
  [][\A s \in Sessions :
       (pc[s] = "reset_update" /\ result'[s] = "autoReset")
         => now - users[loc[s].me].lastVoteReset >= VOTING_CONFIG_voteResetInterval]_vars

\* what the records of the gifts and transactions collections say account n
\* received minus what they say it paid
RecordedDelta(n) ==
  LET G == BagToSet(logs.gifts)
      T == BagToSet(logs.transactions)
  IN SumOver([r \in G |-> CopiesIn(r, logs.gifts) *
                ((IF r.recipientId = n THEN r.amount ELSE 0)
                 - (IF r.senderId = n THEN r.amount ELSE 0))], G)
     + SumOver([r \in T |-> CopiesIn(r, logs.transactions) *
                  ((IF r.recipient = n THEN r.amount - r.fee ELSE 0)
                   - (IF r.sender = n THEN r.amount ELSE 0))], T)

\* C27: every committed credit movement has exactly one record and there is no
\* record of a movement that did not commit: in every state the change of each
\* account's balance since registration is the one its records add up to.
C27_TransferAuditTrail ==
  \A n \in Names :
    users[n].exists => users[n].credits - AUTH_CONFIG_defaultCredits = RecordedDelta(n)

\* the call of session s moves LaptopPrice from a to b
ScenarioCall(l) == l.me = "a" /\ l.target = "b" /\ l.amount = LaptopPrice
ScenarioStart ==
  users["a"].credits = AUTH_CONFIG_defaultCredits /\ users["b"].credits = 0

WeekTimes ==
  {StartTime + k * TickMs + d : k \in 0..(7 * 24), d \in {-1, 0, 1}}

\* C30: voting is disabled outside the weekly window: there are times at which
\* isVotingOpen is false, and a castVote that found the window closed has
\* changed no account.
C30_VotingWindow ==
  /\ \E t \in WeekTimes \cup {now} : ~isVotingOpen(t)
  /\ \A s \in Sessions : result[s] = "VotingClosed" => ~loc[s].wrote

\* C31: an expired bounty that several clients observe is expired exactly
\* once: every session that goes on to write the EXPIRED notification has
\* itself taken the target from active to not active, so one bounty yields
\* one transition and one notification.
C31_ExactlyOnceExpiry ==
  [][\A s \in Sessions :
       (pc[s] = "expire_update" /\ pc'[s] = "expire_message")
         => users[loc[s].target].isBounty /\ ~users'[loc[s].target].isBounty]_vars

\* C32: a gift or transfer from an account to itself is never executed: no
\* gift transaction and no transfer commits with sender = recipient, and no
\* step in which an account would pay itself changes credits.
C32_NoSelfGift ==
  [][\A s \in Sessions :
       (pc[s] = "idle" /\ pc'[s] \in {"gift_message", "transfer_log"})
         => /\ loc'[s].me # loc'[s].target
            /\ TotalCredits' <= TotalCredits]_vars

\* C33: an admin adjustment composes with the other committed changes of the
\* account: the write of openEditMenu's Add Credits changes the balance the
\* account has at that moment by exactly the delta the admin typed, and the
\* increment of adminRemoveCredits by exactly its amount.
C33_AdminAdjustmentsCompose ==
  [][\A s \in Sessions :
       /\ (pc[s] = "edit_set" /\ pc'[s] = "idle" /\ users[loc[s].target].exists)
            => users'[loc[s].target].credits - users[loc[s].target].credits \in EditDeltas
       /\ (pc[s] = "remove_update" /\ result'[s] = "ok")
            => users'[loc[s].target].credits = users[loc[s].target].credits - loc[s].amount]_vars

\* an account document without the fields named in hidden
Except(doc, hidden) == [f \in (DOMAIN doc) \ hidden |-> doc[f]]

\* C34 (as claimed): a global reset changes only votesRemaining and the
\* votesGiven map: credits, totalVotesReceived and every other field of every
\* account are the same after the reset as before it.
C34_ResetFrame ==
  [][\A s \in Sessions :
       (pc[s] \in ResetCommits /\ result'[s] = "reset")
         => \A n \in Names :
              Except(users'[n], {"votesRemaining", "votesGiven"})
                = Except(users[n], {"votesRemaining", "votesGiven"})]_vars

\* C34 (amended): a global reset never changes credits or any field other
\* than votesRemaining, votesGiven, totalVotesReceived and voters;
\* resetAllVotes, adminResetVotes and resetWeeklyVotes({resetTotalVotes:
\* false}) leave totalVotesReceived and voters as they were, while
\* resetWeeklyVotes with its default resetTotalVotes = true sets
\* totalVotesReceived to 0 and empties voters on every account its query
\* returned (an account created after the query is not reset at all).
C34_ResetFrameWeeklyClearsReceived ==
  [][\A s \in Sessions :
       (pc[s] \in ResetCommits /\ result'[s] = "reset")
         => \A n \in Names :
              /\ Except(users'[n], {"votesRemaining", "votesGiven", "totalVotesReceived", "voters"})
                   = Except(users[n], {"votesRemaining", "votesGiven", "totalVotesReceived", "voters"})
              /\ IF pc[s] = "resetweekly_commit" /\ loc[s].amount = 1 /\ n \in loc[s].seen
                 THEN /\ users'[n].totalVotesReceived = 0
                      /\ users'[n].voters = [x \in Names |-> 0]
                 ELSE /\ users'[n].totalVotesReceived = users[n].totalVotesReceived
                      /\ users'[n].voters = users[n].voters]_vars

\* C34 witness: a has voted for b (and was paid for it), then a reset with
\* resetTotalVotes completed: b's received votes are gone, a's credits are not
C34_Witness ==
  /\ \E s \in Sessions : result[s] = "reset" /\ pc[s] = "idle"
  /\ users["a"].credits = AUTH_CONFIG_defaultCredits + VOTING_CREDIT_REWARD
  /\ users["b"].totalVotesReceived = 0 /\ users["b"].voters["a"] = 0
  /\ users["a"].votesRemaining = VOTES_PER_WEEK

\* announcements in the messages collection: CONTRACT OPEN and GIFT
Announcements(l) ==
  LET M == {m \in BagToSet(l.messages) :
              m.type = "GIFT" \/ m = ContractOpenMessage(m.target)}
  IN SumOver([m \in M |-> CopiesIn(m, l.messages)], M)

\* C35: in the legacy bounty and gift flows the announcement is written
\* exactly once for each committed transaction and never for one that aborts:
\* a step adds one announcement when it moves credits, and none otherwise.
C35_AnnouncementExactlyOnce ==
  [][Announcements(logs') - Announcements(logs) = (IF Credits' # Credits THEN 1 ELSE 0)]_vars

\* C36: the 10% tax leaves the total of all credits unchanged: what its batch
\* takes from the subjects is what it adds to the admin account, also when
\* other credit changes commit between its read and its commit.
C36_ZeroSumTax ==
  [][\A s \in Sessions :
       (pc[s] = "tax_commit" /\ result'[s] = "taxed") => TotalCredits' = TotalCredits]_vars

\* C37: an account is credited the daily bonus at most once in any 24-hour
\* window, also when claimDailyBonus runs concurrently in several sessions of
\* the same user: a claim is credited only to an account whose last credited
\* claim is at least 24 hours old.
C37_DailyBonusOncePerDay ==
  [][\A s \in Sessions :
       (pc[s] = "bonus_update" /\ result'[s] = "claimed")
         => now - users[loc[s].me].lastDailyBonus >= dayInMs]_vars

\* C38: votes are tracked consistently on both sides: for every voter v and
\* target t, t.voters[v] = v.votesGiven[t], and t.totalVotesReceived is the
\* sum of t.voters, after any sequence of castVote and resetWeeklyVotes calls.
C38_VoteTrackingConsistent ==
  \A t \in Names : users[t].exists =>
    /\ \A v \in Names : users[v].exists => users[t].voters[v] = users[v].votesGiven[t]
    /\ users[t].totalVotesReceived = SumOver(users[t].voters, Names)

\* C39: the active-bounty limit releases: a session is refused a placement for
\* having 3 active bounties only while 3 of its bounties are actually active;
\* once they have expired (and the cooldown has passed) it can place again.
C39_ActiveLimitReleases ==
  [][\A s \in Sessions :
       (pc[s] = "idle" /\ result[s] # "MaxActive" /\ result'[s] = "MaxActive")
         => Cardinality(ActiveBountiesOf(s)) >= BOUNTY_CONFIG_maxActiveBounties]_vars

\* C40: the economy lock is effective: while settings/economy.locked is true,
\* no gift, transfer or bounty placement changes the credits of any account.
C40_EconomyLockEffective ==
  [][(logs.economy.locked /\ logs'.economy.locked) => Credits' = Credits]_vars


====
